---- MODULE Spec2Model ----
(***************************************************************************)
(* Model of the websocket-to-NATS gateway: the connection storage          *)
(* (ConnectionsStorage), the per-connection state (Connection), and the    *)
(* gateway's handlers (NatsWebSocket): accept, the read loop, the text     *)
(* protocol (ping / login>: / topic>:), close handling and the sweep of    *)
(* old connections.                                                        *)
(*                                                                         *)
(* Connections are referred to by their accept order (1..MaxConn); the     *)
(* ConnectionID each one carries is a separate field, as in the source.    *)
(* Time is in whole seconds, as time.Now().Unix() in cleanConnectionsIfNeed.*)
(***************************************************************************)
EXTENDS Integers, Sequences, FiniteSets, TLC

\* ------------------------------------------------------------------------
\* Bounds of the model
\* ------------------------------------------------------------------------
MaxConn == 2     \* individually tracked connections
MaxNow  == 61    \* the clock stops here
MaxSubs == 1     \* subscriptions of one connection to one topic
MaxFrames == 2   \* frames the clients send, step by step

\* ------------------------------------------------------------------------
\* Program constants
\* ------------------------------------------------------------------------
MaxUnLoggedConnectionCount == 200
UnLoggedConnectionTimeout  == 60
ClosedID == -1          \* Connection.Close sets c.id = -1
Nil == 0                \* the nil *Connection

LoginPrefix == "login>:"
TopicPrefix == "topic>:"

\* Close codes of the websocket library, by name.
CloseNormalClosure     == "CloseNormalClosure"
CloseGoingAway         == "CloseGoingAway"
ClosePolicyViolation   == "ClosePolicyViolation"
CloseInternalServerErr == "CloseInternalServerErr"

\* Config.NatsTopics, as the repository's test configures it.
NatsTopics == <<"test.a", "test.b">>

\* ------------------------------------------------------------------------
\* Inputs
\* ------------------------------------------------------------------------
Conns == 1..MaxConn

\* A token is a sequence of pieces; BEARER is one occurrence of the
\* substring "Bearer ", the other pieces are text free of that substring.
BEARER == "Bearer "
JwtA   == "jwtA"     \* a JWT that validates, claims {userId: "u1", name: "n1"}
JwtB   == "jwtB"     \* a JWT that validates, claims {name: "u2"} (no userId)
Junk   == "abcde"    \* text that is no valid JWT

Tokens ==
  { <<BEARER, JwtA>>,           \* "Bearer <jwtA>"
    <<BEARER, JwtB>>,           \* "Bearer <jwtB>"
    <<BEARER, Junk>>,           \* "Bearer abcde"
    <<JwtA>>,                   \* "<jwtA>": no scheme at all
    <<Junk, BEARER, JwtA>>,     \* "abcdeBearer <jwtA>": scheme not a prefix
    <<BEARER, BEARER, JwtA>>,   \* "Bearer Bearer <jwtA>"
    << >> }                     \* ""

TopicNames == {"test.a", "paco.is.smart"}

\* Payloads published on the bus ("whosyourdaddy" is the test's).
Payloads == {"whosyourdaddy", "ok"}

\* Config.RemoteAddr values: unset (as in the repository's test) or set.
RemoteAddrs == {"", "10.0.0.1"}

\* ------------------------------------------------------------------------
\* Go maps as functions with an explicit domain
\* ------------------------------------------------------------------------
EmptyMap == [k \in {} |-> Nil]
MapGet(m, k) == IF k \in DOMAIN m THEN m[k] ELSE Nil
MapPut(m, k, v) == [x \in (DOMAIN m) \cup {k} |-> IF x = k THEN v ELSE m[x]]
MapDel(m, k) == [x \in (DOMAIN m) \ {k} |-> m[x]]

SetMin(S) == CHOOSE x \in S : \A y \in S : x <= y

VARIABLES
  now,                           \* wall clock, seconds
  remoteAddr,                    \* config.RemoteAddr
  lastConnectionNumber,          \* NatsWebSocket.lastConnectionNumber
  conn,                          \* the Connection objects
  pc,                            \* where each connection's read loop is
  connectionsByID,               \* ConnectionsStorage.connectionsByID
  connectionsByUserID,           \* ConnectionsStorage.connectionsByUserID
  connectionsByDeviceID,         \* ConnectionsStorage.connectionsByDeviceID
  numberOfNotLoggedConnections,  \* ConnectionsStorage.numberOfNotLoggedConnections
  crowd,                         \* a burst of connections that stay silent
  subs,                          \* bus subscriptions made by setupSubsrciber
  last,                          \* the handler that ran last and its reply
  bus,                           \* the message published last and its forwarding
  unit,                          \* the goroutines, step by step
  mutex,                         \* ConnectionsStorage.mutex
  dataMutex,                     \* Connection.dataMutex
  writeMutex                     \* Connection.writeMutex

vars == <<now, remoteAddr, lastConnectionNumber, conn, pc, connectionsByID,
          connectionsByUserID, connectionsByDeviceID,
          numberOfNotLoggedConnections, crowd, subs, last, bus,
          unit, mutex, dataMutex, writeMutex>>

\* The variables of the step-by-step model.
stepVars == <<unit, mutex, dataMutex, writeMutex>>

\* ------------------------------------------------------------------------
\* jwt.go
\* ------------------------------------------------------------------------
\* strings.Split(token, "Bearer ")
RECURSIVE Split(_)
Split(token) ==
  LET occ == {i \in 1..Len(token) : token[i] = BEARER}
  IN IF occ = {} THEN <<token>>
     ELSE LET i == SetMin(occ)
          IN <<SubSeq(token, 1, i - 1)>> \o Split(SubSeq(token, i + 1, Len(token)))

ResolveIDToken(token) ==
  LET idtokensegments == Split(token)
  IN IF Len(idtokensegments) # 2
     THEN [idtoken |-> << >>, valid |-> FALSE]
     ELSE [idtoken |-> idtokensegments[2], valid |-> TRUE]

\* ParseJWT: the JWT library's verdict on the token and the claims it carries.
ParseJWT(idtoken) ==
  IF idtoken = <<JwtA>>
  THEN [ok |-> TRUE, claims |-> [k \in {"userId", "name"} |->
                                   IF k = "userId" THEN "u1" ELSE "n1"]]
  ELSE IF idtoken = <<JwtB>>
  THEN [ok |-> TRUE, claims |-> [k \in {"name"} |-> "u2"]]
  ELSE [ok |-> FALSE, claims |-> [k \in {} |-> ""]]

\* ------------------------------------------------------------------------
\* connection.go
\* ------------------------------------------------------------------------
NoFrame == [code |-> "none", reason |-> "none", asked |-> "none"]

\* A slot whose connection has not been accepted yet.
NoConnection ==
  [id |-> 0, userID |-> "", deviceID |-> "", startTime |-> 0,
   open |-> FALSE, closeFrame |-> NoFrame]

NewConnection(id, t) ==
  [id |-> id, userID |-> "", deviceID |-> "", startTime |-> t,
   open |-> TRUE, closeFrame |-> NoFrame]

\* Connection.Close: the close frame always carries CloseNormalClosure; it
\* reaches the peer only if the socket is still open.  `asked` keeps the code
\* the caller passed.
Close(c, code, reason) ==
  [c EXCEPT !.closeFrame = IF c.open
                            THEN [code |-> CloseNormalClosure,
                                  reason |-> reason, asked |-> code]
                            ELSE @,
            !.open = FALSE,
            !.id = ClosedID,
            !.userID = "",
            !.deviceID = ""]

IsLoggedIn(c) == c.userID # ""

ConnLogin(c, userID, deviceID) ==
  [c EXCEPT !.userID = userID, !.deviceID = deviceID]

\* What SendText puts on the wire: nothing once the socket is closed.
NoReply == "none"
SendText(c, message) == IF c.open THEN message ELSE NoReply

\* ------------------------------------------------------------------------
\* ConnectionsStorage.  The operators work on a record S of the four fields
\* and on cs, the Connection objects.
\* ------------------------------------------------------------------------
Storage ==
  [connectionsByID |-> connectionsByID,
   connectionsByUserID |-> connectionsByUserID,
   connectionsByDeviceID |-> connectionsByDeviceID,
   numberOfNotLoggedConnections |-> numberOfNotLoggedConnections]

NewConnectionsStorage ==
  [connectionsByID |-> EmptyMap,
   connectionsByUserID |-> [k \in {} |-> EmptyMap],
   connectionsByDeviceID |-> EmptyMap,
   numberOfNotLoggedConnections |-> 0]

AddNewConnection(S, cs, c) ==
  [S EXCEPT !.numberOfNotLoggedConnections = @ + 1,
            !.connectionsByID = MapPut(@, cs[c].id, c)]

\* removeConnection without the return on a connection that is not in
\* connectionsByID.
removeConnection_NoGuard(S, cs, c) ==
  LET connectionID == cs[c].id
      userID == cs[c].userID
      deviceID == cs[c].deviceID
      byID == MapDel(S.connectionsByID, connectionID)
  IN IF userID = ""
     THEN [S EXCEPT !.connectionsByID = byID,
                    !.numberOfNotLoggedConnections = @ - 1]
     ELSE LET byUser ==
                IF userID \in DOMAIN S.connectionsByUserID
                THEN LET userConnections == MapDel(S.connectionsByUserID[userID], deviceID)
                     IN IF DOMAIN userConnections = {}
                        THEN MapDel(S.connectionsByUserID, userID)
                        ELSE [S.connectionsByUserID EXCEPT ![userID] = userConnections]
                ELSE S.connectionsByUserID
              byDevice ==
                IF MapGet(S.connectionsByDeviceID, deviceID) # Nil
                THEN MapDel(S.connectionsByDeviceID, deviceID)
                ELSE S.connectionsByDeviceID
          IN [S EXCEPT !.connectionsByID = byID,
                       !.connectionsByUserID = byUser,
                       !.connectionsByDeviceID = byDevice]

removeConnection(S, cs, c) ==
  LET connectionID == cs[c].id
      userID == cs[c].userID
      deviceID == cs[c].deviceID
      byID == MapDel(S.connectionsByID, connectionID)
  IN IF MapGet(S.connectionsByID, connectionID) = Nil
     THEN S
     ELSE IF userID = ""
     THEN [S EXCEPT !.connectionsByID = byID,
                    !.numberOfNotLoggedConnections = @ - 1]
     ELSE LET byUser ==
                IF userID \in DOMAIN S.connectionsByUserID
                THEN LET userConnections == MapDel(S.connectionsByUserID[userID], deviceID)
                     IN IF DOMAIN userConnections = {}
                        THEN MapDel(S.connectionsByUserID, userID)
                        ELSE [S.connectionsByUserID EXCEPT ![userID] = userConnections]
                ELSE S.connectionsByUserID
              byDevice ==
                IF MapGet(S.connectionsByDeviceID, deviceID) # Nil
                THEN MapDel(S.connectionsByDeviceID, deviceID)
                ELSE S.connectionsByDeviceID
          IN [S EXCEPT !.connectionsByID = byID,
                       !.connectionsByUserID = byUser,
                       !.connectionsByDeviceID = byDevice]

RemoveConnection(S, cs, c) == removeConnection(S, cs, c)

\* OnLogin that leaves the connection found on the device where it is.
OnLogin_KeepBefore(S, cs, c) ==
  LET userID == cs[c].userID
      deviceID == cs[c].deviceID
  IN IF userID = ""
     THEN [storage |-> S, before |-> Nil]
     ELSE LET S1 == [S EXCEPT !.numberOfNotLoggedConnections = @ - 1]
              deviceConnectionBefore == MapGet(S1.connectionsByDeviceID, deviceID)
              S3 == [S1 EXCEPT !.connectionsByDeviceID = MapPut(@, deviceID, c)]
              userConnections ==
                IF userID \in DOMAIN S3.connectionsByUserID
                THEN S3.connectionsByUserID[userID]
                ELSE EmptyMap
              S4 == [S3 EXCEPT !.connectionsByUserID =
                                 MapPut(@, userID, MapPut(userConnections, deviceID, c))]
          IN [storage |-> S4, before |-> deviceConnectionBefore]

\* OnLogin returns the storage and the connection that held the device.
OnLogin(S, cs, c) ==
  LET userID == cs[c].userID
      deviceID == cs[c].deviceID
  IN IF userID = ""
     THEN [storage |-> S, before |-> Nil]
     ELSE LET S1 == [S EXCEPT !.numberOfNotLoggedConnections = @ - 1]
              deviceConnectionBefore == MapGet(S1.connectionsByDeviceID, deviceID)
              S2 == IF deviceConnectionBefore # Nil
                    THEN removeConnection(S1, cs, deviceConnectionBefore)
                    ELSE S1
              S3 == [S2 EXCEPT !.connectionsByDeviceID = MapPut(@, deviceID, c)]
              userConnections ==
                IF userID \in DOMAIN S3.connectionsByUserID
                THEN S3.connectionsByUserID[userID]
                ELSE EmptyMap
              S4 == [S3 EXCEPT !.connectionsByUserID =
                                 MapPut(@, userID, MapPut(userConnections, deviceID, c))]
          IN [storage |-> S4, before |-> deviceConnectionBefore]

GetStats(S) ==
  [NumberOfDevices |-> Cardinality(DOMAIN S.connectionsByDeviceID),
   NumberOfUsers |-> Cardinality(DOMAIN S.connectionsByUserID),
   NumberOfNotLoggedConnections |-> S.numberOfNotLoggedConnections]


\* ------------------------------------------------------------------------
\* The silent crowd: Crowd connections accepted within one second that never
\* send a frame.  They are all alike (no identity, the same startTime), so
\* the model keeps one record for them instead of Crowd entries of
\* connectionsByID: crowd.state = "registered" stands for their Crowd entries
\* being in connectionsByID, "swept" for RemoveIf having removed and closed
\* them.
\* ------------------------------------------------------------------------
Crowd == MaxUnLoggedConnectionCount

NoCrowd == [state |-> "absent", startTime |-> 0]

CrowdInByID(cr) == IF cr.state = "registered" THEN Crowd ELSE 0

\* ------------------------------------------------------------------------
\* NatsWebSocket.cleanConnectionsIfNeed and ConnectionsStorage.RemoveIf
\* ------------------------------------------------------------------------
\* The condition passed to RemoveIf: only the age is looked at.
SweepCondition(c, t) == t - c.startTime > UnLoggedConnectionTimeout

\* The callback passed to RemoveIf.
SweepAfterRemove(c) == Close(c, ClosePolicyViolation, "Auth")

\* One iteration of RemoveIf's loop body, for the entry under key id.
RemoveIfBody(S, cs, id) ==
  LET connection == S.connectionsByID[id]
      userID == cs[connection].userID
      deviceID == cs[connection].deviceID
      byDevice == IF deviceID # ""
                  THEN MapDel(S.connectionsByDeviceID, deviceID)
                  ELSE S.connectionsByDeviceID
      byUser == IF userID # "" /\ userID \in DOMAIN S.connectionsByUserID
                THEN IF Cardinality(DOMAIN S.connectionsByUserID[userID]) = 1
                     THEN MapDel(S.connectionsByUserID, userID)
                     ELSE [S.connectionsByUserID EXCEPT
                             ![userID] = MapDel(@, deviceID)]
                ELSE S.connectionsByUserID
  IN [storage |-> [S EXCEPT !.connectionsByID = MapDel(@, id),
                            !.connectionsByDeviceID = byDevice,
                            !.connectionsByUserID = byUser],
      conns |-> [cs EXCEPT ![connection] = SweepAfterRemove(@)]]

\* The loop over connectionsByID.  Go leaves the order of a map range open;
\* the bodies of different entries commute (each deletes keys and closes its
\* own connection), so the loop is run in ascending key order.
RECURSIVE RemoveIfLoop(_, _, _, _)
RemoveIfLoop(S, cs, ids, t) ==
  IF ids = {} THEN [storage |-> S, conns |-> cs]
  ELSE LET id == SetMin(ids)
           r == IF SweepCondition(cs[S.connectionsByID[id]], t)
                THEN RemoveIfBody(S, cs, id)
                ELSE [storage |-> S, conns |-> cs]
       IN RemoveIfLoop(r.storage, r.conns, ids \ {id}, t)

RemoveIf(S, cs, cr, t) ==
  LET r == RemoveIfLoop(S, cs, DOMAIN S.connectionsByID, t)
  IN [storage |-> r.storage,
      conns |-> r.conns,
      crowd |-> IF cr.state = "registered" /\ SweepCondition(cr, t)
                THEN [cr EXCEPT !.state = "swept"]
                ELSE cr]

cleanConnectionsIfNeed(S, cs, cr, t) ==
  IF GetStats(S).NumberOfNotLoggedConnections > MaxUnLoggedConnectionCount
  THEN RemoveIf(S, cs, cr, t)
  ELSE [storage |-> S, conns |-> cs, crowd |-> cr]

\* ------------------------------------------------------------------------
\* NatsWebSocket: the text protocol
\* ------------------------------------------------------------------------
\* A text message is a sequence of pieces: a command prefix or word, then
\* the payload's pieces.
HasPrefix(message, prefix) == Len(message) >= 1 /\ message[1] = prefix

TextMessages ==
  {<<"ping">>, <<"hello">>}
    \cup {<<LoginPrefix>> \o t : t \in Tokens}
    \cup {<<TopicPrefix, n>> : n \in TopicNames}

contains(source, target) == \E i \in 1..Len(source) : source[i] = target

\* The result of a handler: the storage, the connections, the subscriptions,
\* what was sent to the connection, and which branch was taken.
Result(S, cs, sb, reply, op) ==
  [storage |-> S, conns |-> cs, subs |-> sb, reply |-> reply, op |-> op]

\* onClose that does not unregister the connection.
onClose_NoUnregister(S, cs, c) == S

onClose(S, cs, c) ==
  IF cs[c].id = ClosedID THEN S ELSE RemoveConnection(S, cs, c)

\* loginAgain that counts the login of the same user in the storage again.
loginAgain_Recount(S, cs, sb, c, conUserID, userID) ==
  IF conUserID # userID
  THEN Result(S, cs, sb, SendText(cs[c], "go away"), "mismatch")
  ELSE Result([S EXCEPT !.numberOfNotLoggedConnections = @ - 1],
              cs, sb, SendText(cs[c], "ok"), "relogin")

\* loginAgain with the comparison of the two user ids the wrong way round.
loginAgain_Inverted(S, cs, sb, c, conUserID, userID) ==
  IF conUserID = userID
  THEN Result(S, cs, sb, SendText(cs[c], "go away"), "mismatch")
  ELSE Result(S, cs, sb, SendText(cs[c], "ok"), "relogin")

\* login, from the check of the identity the connection already holds: the
\* connection is logged in already.
loginAgain(S, cs, sb, c, conUserID, userID) ==
  IF conUserID # userID
  THEN Result(S, cs, sb, SendText(cs[c], "go away"), "mismatch")
  ELSE Result(S, cs, sb, SendText(cs[c], "ok"), "relogin")

\* login, from connection.Login on: the connection holds no identity yet.
loginFirst(S, cs, sb, c, userID, deviceID) ==
  LET cs1 == [cs EXCEPT ![c] = ConnLogin(@, userID, deviceID)]
      r == OnLogin(S, cs1, c)
      deviceConnectionBefore == r.before
      cs2 == IF deviceConnectionBefore # Nil
             THEN [cs1 EXCEPT ![deviceConnectionBefore] =
                     Close(@, CloseGoingAway, "OneConnectionPerDevice")]
             ELSE cs1
      S2 == IF deviceConnectionBefore # Nil
            THEN RemoveConnection(r.storage, cs2, deviceConnectionBefore)
            ELSE r.storage
  IN Result(S2, cs2, sb, SendText(cs2[c], "ok"), "login")

\* The user id login takes from the claims.
ClaimedUserID(claims) ==
  IF "userId" \in DOMAIN claims THEN claims["userId"] ELSE claims["name"]

\* login that takes the device id from the claims (here: one device per
\* user) instead of config.RemoteAddr.
login_DevicePerUser(S, cs, sb, c, tokenBinary, addr) ==
  LET resolved == ResolveIDToken(tokenBinary)
      parsed == ParseJWT(resolved.idtoken)
      userID == ClaimedUserID(parsed.claims)
      deviceID == userID
      conUserID == cs[c].userID
  IN IF ~resolved.valid
     THEN Result(S, cs, sb, SendText(cs[c], LoginPrefix \o "Not Authorized"), "unauthorized")
     ELSE IF ~parsed.ok
     THEN Result(S, cs, sb, SendText(cs[c], LoginPrefix \o "Not Authorized"), "unauthorized")
     ELSE IF conUserID # ""
     THEN loginAgain(S, cs, sb, c, conUserID, userID)
     ELSE loginFirst(S, cs, sb, c, userID, deviceID)

login(S, cs, sb, c, tokenBinary, addr) ==
  LET resolved == ResolveIDToken(tokenBinary)
      parsed == ParseJWT(resolved.idtoken)
      userID == ClaimedUserID(parsed.claims)
      deviceID == addr
      conUserID == cs[c].userID
  IN IF ~resolved.valid
     THEN Result(S, cs, sb, SendText(cs[c], LoginPrefix \o "Not Authorized"), "unauthorized")
     ELSE IF ~parsed.ok
     THEN Result(S, cs, sb, SendText(cs[c], LoginPrefix \o "Not Authorized"), "unauthorized")
     ELSE IF conUserID # ""
     THEN loginAgain(S, cs, sb, c, conUserID, userID)
     ELSE loginFirst(S, cs, sb, c, userID, deviceID)

\* setupSubsrciber without the check of the topic against NatsTopics.
setupSubsrciber_NoCheck(S, cs, sb, c, topic) ==
  Result(S, cs, [sb EXCEPT ![c][topic] = @ + 1], NoReply, "subscribed")

\* natsPool.Get and busClient.Subscribe: the lease and the subscription
\* succeed, and the subscription is recorded.  (On a failure of either the
\* code calls log.Fatalf, which ends the process; the model has no step for
\* it.)
setupSubsrciber(S, cs, sb, c, topic) ==
  IF ~contains(NatsTopics, topic)
  THEN Result(S, cs, sb, SendText(cs[c], "invalid topic"), "invalidtopic")
  ELSE Result(S, cs, [sb EXCEPT ![c][topic] = @ + 1], NoReply, "subscribed")

\* onTextMessage that lets a connection subscribe whether logged in or not.
onTextMessage_NoAuthCheck(S, cs, sb, c, message, addr) ==
  IF message = <<"ping">>
  THEN Result(S, cs, sb, SendText(cs[c], "pong"), "ping")
  ELSE IF HasPrefix(message, LoginPrefix)
  THEN login(S, cs, sb, c, Tail(message), addr)
  ELSE IF HasPrefix(message, TopicPrefix)
  THEN setupSubsrciber(S, cs, sb, c, message[2])
  ELSE Result(S, cs, sb, NoReply, "ignored")

onTextMessage(S, cs, sb, c, message, addr) ==
  IF message = <<"ping">>
  THEN Result(S, cs, sb, SendText(cs[c], "pong"), "ping")
  ELSE IF HasPrefix(message, LoginPrefix)
  THEN login(S, cs, sb, c, Tail(message), addr)
  ELSE IF HasPrefix(message, TopicPrefix)
  THEN IF ~IsLoggedIn(cs[c])
       THEN Result(S, cs, sb, SendText(cs[c], "go away"), "notloggedin")
       ELSE setupSubsrciber(S, cs, sb, c, message[2])
  ELSE Result(S, cs, sb, NoReply, "ignored")

onBinaryMessage(S, cs, sb, c) ==
  Result(S, cs, sb, SendText(cs[c], "binary message is not supported yet"), "binary")

\* ------------------------------------------------------------------------
\* The message bus.  A message is a subject and its data.  The connection
\* pool and the bus client are not part of the sources at hand: the bus is
\* taken to invoke, for a published message, the callback of every
\* subscription made on the message's subject, once per subscription.
\* ------------------------------------------------------------------------
Msg(subject, data) == [Subject |-> subject, Data |-> data]

\* The callback that forwards the subject instead of the data.
Callback_Subject(cs, c, msg) == SendText(cs[c], msg.Subject)

\* The callback setupSubsrciber hands to busClient.Subscribe.
Callback(cs, c, msg) == SendText(cs[c], msg.Data)

\* The number of subscriptions of c on a subject.
Subscriptions(sb, c, subject) == sb[c][subject]

\* The text frames that the callbacks of c's subscriptions put on c's socket
\* for a published message.
Forwarded(cs, sb, c, msg) ==
  LET frame == Callback(cs, c, msg)
  IN IF frame = NoReply
     THEN << >>
     ELSE [i \in 1..Subscriptions(sb, c, msg.Subject) |-> frame]

NoBus == [msg |-> Msg("", ""), frames |-> [c \in Conns |-> << >>]]

\* ------------------------------------------------------------------------
\* The gateway step by step: the goroutines (units), the three kinds of
\* locks, and each function as the sequence of lock operations and shared
\* accesses it makes.  A unit is the onConnection handler of a connection
\* ("accept"), its handleInputMessages goroutine ("loop"), or the bus
\* client's goroutine that runs the callbacks of its subscriptions
\* ("callback").
\* ------------------------------------------------------------------------
UnitKinds == {"accept", "loop", "callback"}
Units == {<<k, c>> : k \in UnitKinds, c \in Conns}
NoUnit == <<"none", 0>>

\* An instruction: an operation on connection c (0: on the storage).
I(op, c, arg) == [op |-> op, c |-> c, arg |-> arg, code |-> ""]

\* The point after a call where the function goes on according to what the
\* call returned (code names the point).
K(label, c, arg) == [op |-> "K", c |-> c, arg |-> arg, code |-> label]

\* What a unit holds in local variables.
NoInfo == [id |-> 0, userID |-> "", deviceID |-> ""]

NoLoc ==
  [info |-> NoInfo,          \* what GetInfo returned last
   userID |-> "",            \* userID in login and in OnLogin
   deviceID |-> "",          \* deviceID in login and in OnLogin
   before |-> Nil,           \* deviceConnectionBefore
   startTime |-> 0,          \* what GetStartTime returned
   now |-> 0,                \* now in cleanConnectionsIfNeed
   stats |-> 0,              \* stats.NumberOfNotLoggedConnections
   loggedIn |-> FALSE,       \* what IsLoggedIn returned
   range |-> {},             \* keys left to the range loop of RemoveIf
   exit |-> FALSE,           \* the function of the unit has returned
   frames |-> 0]             \* frames of the client ReadMessage has met

NoUnitState == [st |-> "off", todo |-> << >>, loc |-> NoLoc]

\* sync.RWMutex: the writer and the readers that hold it.
FreeRW == [w |-> NoUnit, r |-> {}]

NoLocks ==
  [mutex |-> FreeRW,
   dataMutex |-> [c \in Conns |-> FreeRW],
   writeMutex |-> [c \in Conns |-> NoUnit]]

\* --- connection.go, step by step ---
GetInfoSteps(c) ==
  <<I("RLock", c, "dataMutex"), I("GetInfo", c, ""), I("RUnlock", c, "dataMutex")>>

GetStartTimeSteps(c) ==
  <<I("RLock", c, "dataMutex"), I("GetStartTime", c, ""), I("RUnlock", c, "dataMutex")>>

IsLoggedInSteps(c) ==
  <<I("RLock", c, "dataMutex"), I("IsLoggedIn", c, ""), I("RUnlock", c, "dataMutex")>>

LoginSteps(c, userID) ==
  <<I("Lock", c, "dataMutex"), I("Login", c, userID), I("Unlock", c, "dataMutex")>>

UpdateLastPingTimeSteps(c) ==
  <<I("Lock", c, "dataMutex"), I("UpdateLastPingTime", c, ""), I("Unlock", c, "dataMutex")>>

\* SendText that writes without taking writeMutex.
SendTextSteps_NoGate(c, message) ==
  <<I("WriteMessage", c, message)>>

SendTextSteps(c, message) ==
  <<I("Lock", c, "writeMutex"), I("WriteMessage", c, message), I("Unlock", c, "writeMutex")>>

\* Close that keeps dataMutex (a deferred Unlock) while it takes writeMutex.
CloseSteps_DeferUnlock(c, code, reason) ==
  <<I("Lock", c, "dataMutex"),
    I("Lock", c, "writeMutex"),
    [I("WriteClose", c, reason) EXCEPT !.code = code],
    I("ws.Close", c, ""),
    I("Close.id", c, ""), I("Close.userID", c, ""), I("Close.deviceID", c, ""),
    I("Unlock", c, "writeMutex"),
    I("Unlock", c, "dataMutex")>>

CloseSteps(c, code, reason) ==
  <<I("Lock", c, "dataMutex"), I("Unlock", c, "dataMutex"),
    I("Lock", c, "writeMutex"),
    [I("WriteClose", c, reason) EXCEPT !.code = code],
    I("ws.Close", c, ""),
    I("Close.id", c, ""), I("Close.userID", c, ""), I("Close.deviceID", c, ""),
    I("Unlock", c, "writeMutex")>>

\* --- ConnectionsStorage, step by step ---
AddNewConnectionSteps(c) ==
  <<I("Lock", 0, "mutex"), I("AddNewConnection", c, ""), I("Unlock", 0, "mutex")>>

removeConnectionSteps(c) ==
  GetInfoSteps(c) \o <<I("removeConnection", c, "")>>

RemoveConnectionSteps(c) ==
  <<I("Lock", 0, "mutex")>> \o removeConnectionSteps(c) \o <<I("Unlock", 0, "mutex")>>

OnLoginSteps(c) ==
  <<I("Lock", 0, "mutex")>> \o GetInfoSteps(c) \o <<K("OnLogin.userID", c, "")>>

GetStatsSteps ==
  <<I("RLock", 0, "mutex"), I("GetStats", 0, ""), I("RUnlock", 0, "mutex")>>

RemoveIfSteps ==
  <<I("Lock", 0, "mutex"), I("RemoveIf.start", 0, ""), K("RemoveIf.next", 0, "")>>

\* --- NatsWebSocket, step by step ---
onCloseSteps(c) ==
  GetInfoSteps(c) \o <<K("onClose.connectionID", c, "")>>

cleanConnectionsIfNeedSteps(c) ==
  <<I("time.Now", c, "")>> \o GetStatsSteps \o <<K("cleanConnectionsIfNeed.stats", c, "")>>

onConnectionSteps(c) ==
  AddNewConnectionSteps(c) \o <<I("go", c, "")>> \o cleanConnectionsIfNeedSteps(c)

setupSubsrciberSteps(c, topic) ==
  IF ~contains(NatsTopics, topic)
  THEN SendTextSteps(c, "invalid topic")
  ELSE <<I("Subscribe", c, topic)>>

loginSteps(c, tokenBinary) ==
  LET resolved == ResolveIDToken(tokenBinary)
      parsed == ParseJWT(resolved.idtoken)
  IN IF ~resolved.valid \/ ~parsed.ok
     THEN SendTextSteps(c, LoginPrefix \o "Not Authorized")
     ELSE GetInfoSteps(c) \o <<K("login.conUserID", c, ClaimedUserID(parsed.claims))>>

onTextMessageSteps(c, message) ==
  IF message = <<"ping">>
  THEN SendTextSteps(c, "pong")
  ELSE IF HasPrefix(message, LoginPrefix)
  THEN loginSteps(c, Tail(message))
  ELSE IF HasPrefix(message, TopicPrefix)
  THEN IsLoggedInSteps(c) \o <<K("topic.IsLoggedIn", c, message[2])>>
  ELSE << >>

onBinaryMessageSteps(c) ==
  SendTextSteps(c, "binary message is not supported yet")

\* The callback of a subscription of c, invoked with a message's data.
CallbackSteps(c, data) == SendTextSteps(c, data)

\* How a function goes on at point k with the locals loc: the instructions
\* that follow and the locals after the decision.  A local that is not read
\* again is dropped.
Go(k, loc) ==
  LET c == k.c
  IN CASE k.code = "onClose.connectionID" ->
            [todo |-> IF loc.info.id = ClosedID THEN << >>
                      ELSE RemoveConnectionSteps(c),
             loc |-> [loc EXCEPT !.info = NoInfo]]
       [] k.code = "cleanConnectionsIfNeed.stats" ->
            [todo |-> IF loc.stats > MaxUnLoggedConnectionCount
                      THEN RemoveIfSteps ELSE << >>,
             loc |-> [loc EXCEPT !.stats = 0]]
       [] k.code = "RemoveIf.next" ->
            [todo |-> IF loc.range = {} THEN <<I("Unlock", 0, "mutex")>>
                      ELSE <<I("RemoveIf.range", 0, "")>>,
             loc |-> loc]
       [] k.code = "RemoveIf.condition" ->
            [todo |-> IF loc.now - loc.startTime > UnLoggedConnectionTimeout
                      THEN GetInfoSteps(c) \o <<I("RemoveIf.delete", c, "")>>
                           \o CloseSteps(c, ClosePolicyViolation, "Auth")
                           \o <<K("RemoveIf.next", 0, "")>>
                      ELSE <<K("RemoveIf.next", 0, "")>>,
             loc |-> [loc EXCEPT !.startTime = 0]]
       [] k.code = "OnLogin.userID" ->
            IF loc.info.userID = ""
            THEN [todo |-> <<I("Unlock", 0, "mutex")>>,
                  loc |-> [loc EXCEPT !.before = Nil, !.info = NoInfo]]
            ELSE [todo |-> <<I("OnLogin.before", c, ""), K("OnLogin.before", c, "")>>,
                  loc |-> [loc EXCEPT !.userID = loc.info.userID,
                                      !.deviceID = loc.info.deviceID,
                                      !.info = NoInfo]]
       [] k.code = "OnLogin.before" ->
            [todo |-> (IF loc.before # Nil THEN removeConnectionSteps(loc.before)
                       ELSE << >>)
                      \o <<I("OnLogin.put", c, ""), I("Unlock", 0, "mutex")>>,
             loc |-> loc]
       [] k.code = "login.conUserID" ->
            [todo |-> IF loc.info.userID # ""
                      THEN IF loc.info.userID # k.arg
                           THEN SendTextSteps(c, "go away")
                           ELSE SendTextSteps(c, "ok")
                      ELSE LoginSteps(c, k.arg) \o OnLoginSteps(c)
                           \o <<K("login.before", c, "")>>,
             loc |-> [loc EXCEPT !.info = NoInfo]]
       [] k.code = "login.before" ->
            [todo |-> (IF loc.before # Nil
                       THEN CloseSteps(loc.before, CloseGoingAway, "OneConnectionPerDevice")
                            \o RemoveConnectionSteps(loc.before)
                       ELSE << >>)
                      \o SendTextSteps(c, "ok"),
             loc |-> [loc EXCEPT !.before = Nil]]
       [] k.code = "topic.IsLoggedIn" ->
            [todo |-> IF ~loc.loggedIn THEN SendTextSteps(c, "go away")
                      ELSE setupSubsrciberSteps(c, k.arg),
             loc |-> [loc EXCEPT !.loggedIn = FALSE]]
       [] k.code = "return" ->
            [todo |-> << >>, loc |-> [loc EXCEPT !.exit = TRUE]]

\* handleInputMessages from the return of ReadMessage on.
onFrameSteps(c, steps) == UpdateLastPingTimeSteps(c) \o steps

onReadErrorSteps(c) ==
  CloseSteps(c, CloseInternalServerErr, "ServerError") \o onCloseSteps(c)
    \o <<K("return", c, "")>>

\* --- the locks ---
CanTake(L, h, u) ==
  CASE h.arg = "mutex" ->
         /\ L.mutex.w = NoUnit
         /\ h.op = "Lock" => L.mutex.r = {}
    [] h.arg = "dataMutex" ->
         /\ L.dataMutex[h.c].w = NoUnit
         /\ h.op = "Lock" => L.dataMutex[h.c].r = {}
    [] h.arg = "writeMutex" -> L.writeMutex[h.c] = NoUnit

TakeRW(m, op, u) ==
  IF op = "Lock" THEN [m EXCEPT !.w = u] ELSE [m EXCEPT !.r = @ \cup {u}]

DropRW(m, op, u) ==
  IF op = "Unlock" THEN [m EXCEPT !.w = NoUnit] ELSE [m EXCEPT !.r = @ \ {u}]

Take(L, h, u) ==
  CASE h.arg = "mutex" -> [L EXCEPT !.mutex = TakeRW(@, h.op, u)]
    [] h.arg = "dataMutex" -> [L EXCEPT !.dataMutex[h.c] = TakeRW(@, h.op, u)]
    [] h.arg = "writeMutex" -> [L EXCEPT !.writeMutex[h.c] = u]

Drop(L, h, u) ==
  CASE h.arg = "mutex" -> [L EXCEPT !.mutex = DropRW(@, h.op, u)]
    [] h.arg = "dataMutex" -> [L EXCEPT !.dataMutex[h.c] = DropRW(@, h.op, u)]
    [] h.arg = "writeMutex" -> [L EXCEPT !.writeMutex[h.c] = NoUnit]

\* --- the bodies of the storage's functions, as the steps run them ---
\* The connection with the fields as GetInfo returned them.
WithInfo(c, info) ==
  [c EXCEPT !.id = info.id, !.userID = info.userID, !.deviceID = info.deviceID]

\* OnLogin, lines 56 to 58: the counter, and the connection on the device
\* (looked up under connection.deviceID, read without GetInfo).
OnLoginBefore(S, cs, c) ==
  [storage |-> [S EXCEPT !.numberOfNotLoggedConnections = @ - 1],
   before |-> MapGet(S.connectionsByDeviceID, cs[c].deviceID)]

\* OnLogin, lines 62 to 69.
OnLoginPut(S, c, userID, deviceID) ==
  LET userConnections ==
        IF userID \in DOMAIN S.connectionsByUserID
        THEN S.connectionsByUserID[userID]
        ELSE EmptyMap
  IN [S EXCEPT !.connectionsByDeviceID = MapPut(@, deviceID, c),
               !.connectionsByUserID =
                  MapPut(@, userID, MapPut(userConnections, deviceID, c))]

\* RemoveIf, lines 157 to 172, for the entry of connection c.
RemoveIfDelete(S, c, userID, deviceID) ==
  LET id == CHOOSE k \in DOMAIN S.connectionsByID : S.connectionsByID[k] = c
      byDevice == IF deviceID # ""
                  THEN MapDel(S.connectionsByDeviceID, deviceID)
                  ELSE S.connectionsByDeviceID
      byUser == IF userID # "" /\ userID \in DOMAIN S.connectionsByUserID
                THEN IF Cardinality(DOMAIN S.connectionsByUserID[userID]) = 1
                     THEN MapDel(S.connectionsByUserID, userID)
                     ELSE [S.connectionsByUserID EXCEPT
                             ![userID] = MapDel(@, deviceID)]
                ELSE S.connectionsByUserID
  IN [S EXCEPT !.connectionsByID = MapDel(@, id),
               !.connectionsByDeviceID = byDevice,
               !.connectionsByUserID = byUser]

\* --- one instruction ---
\* What a unit works on: its locals, the locks, the storage, the crowd, the
\* connections, the subscriptions, and the read loops it has started.
Context(loc, L, S, cr, cs, sb) ==
  [loc |-> loc, L |-> L, S |-> S, cr |-> cr, cs |-> cs, sb |-> sb, spawn |-> {}]

\* The context x after unit u has executed instruction h at time t with
\* config.RemoteAddr addr; info is what a read of h.c's fields returns.
Exec(h, x, u, info, t, addr) ==
  CASE h.op \in {"Lock", "RLock"} -> [x EXCEPT !.L = Take(@, h, u)]
    [] h.op \in {"Unlock", "RUnlock"} -> [x EXCEPT !.L = Drop(@, h, u)]
    [] h.op = "GetInfo" -> [x EXCEPT !.loc.info = info]
    [] h.op = "GetStartTime" -> [x EXCEPT !.loc.startTime = x.cs[h.c].startTime]
    [] h.op = "IsLoggedIn" -> [x EXCEPT !.loc.loggedIn = (info.userID # "")]
    [] h.op = "Login" -> [x EXCEPT !.cs[h.c] = ConnLogin(@, h.arg, addr)]
    [] h.op = "UpdateLastPingTime" -> x
    [] h.op = "Close.id" -> [x EXCEPT !.cs[h.c].id = ClosedID]
    [] h.op = "Close.userID" -> [x EXCEPT !.cs[h.c].userID = ""]
    [] h.op = "Close.deviceID" -> [x EXCEPT !.cs[h.c].deviceID = ""]
    [] h.op = "WriteMessage" -> x
    [] h.op = "WriteClose" ->
         [x EXCEPT !.cs[h.c].closeFrame =
            IF x.cs[h.c].open
            THEN [code |-> CloseNormalClosure, reason |-> h.arg, asked |-> h.code]
            ELSE @]
    [] h.op = "ws.Close" -> [x EXCEPT !.cs[h.c].open = FALSE]
    [] h.op = "AddNewConnection" -> [x EXCEPT !.S = AddNewConnection(@, x.cs, h.c)]
    [] h.op = "removeConnection" ->
         [x EXCEPT !.S = removeConnection(@, [x.cs EXCEPT ![h.c] = WithInfo(@, x.loc.info)], h.c),
                   !.loc.info = NoInfo]
    [] h.op = "OnLogin.before" ->
         [x EXCEPT !.S = OnLoginBefore(@, x.cs, h.c).storage,
                   !.loc.before = OnLoginBefore(x.S, x.cs, h.c).before]
    [] h.op = "OnLogin.put" ->
         [x EXCEPT !.S = OnLoginPut(@, h.c, x.loc.userID, x.loc.deviceID),
                   !.loc.userID = "", !.loc.deviceID = ""]
    [] h.op = "GetStats" ->
         [x EXCEPT !.loc.stats = GetStats(x.S).NumberOfNotLoggedConnections]
    [] h.op = "RemoveIf.start" ->
         [x EXCEPT !.loc.range = DOMAIN x.S.connectionsByID,
                   !.cr = IF @.state = "registered" /\ SweepCondition(@, x.loc.now)
                          THEN [@ EXCEPT !.state = "swept"] ELSE @]
    [] h.op = "RemoveIf.delete" ->
         [x EXCEPT !.S = RemoveIfDelete(@, h.c, x.loc.info.userID, x.loc.info.deviceID),
                   !.loc.info = NoInfo]
    [] h.op = "go" -> [x EXCEPT !.spawn = @ \cup {h.c}]
    [] h.op = "time.Now" -> [x EXCEPT !.loc.now = t]
    [] h.op = "Subscribe" -> [x EXCEPT !.sb[h.c][h.arg] = @ + 1]

\* The instructions a unit runs through without another unit being able to
\* observe or delay them between the step before and them: releases of
\* locks, reads and writes of the storage inside mutex that touch nothing
\* else, the clock, the start of the read loop, ws.Close right after the
\* close frame, and the subscription.
Silent ==
  {"Unlock", "RUnlock", "removeConnection", "OnLogin.put", "GetStats",
   "RemoveIf.start", "RemoveIf.delete", "AddNewConnection", "go", "time.Now",
   "ws.Close", "Subscribe"}

\* Close, lines 70 and 71: dataMutex is taken and released at once.  The pair
\* changes nothing; it only waits while another unit holds dataMutex.
Barrier(todo) ==
  /\ Len(todo) >= 2
  /\ todo[1].op = "Lock" /\ todo[2].op = "Unlock"
  /\ todo[1].arg = "dataMutex" /\ todo[2].arg = "dataMutex"
  /\ todo[1].c = todo[2].c

\* After a step the unit runs on through the decisions on its locals and the
\* silent instructions, and through a barrier that is open; it stops in
\* front of its next lock acquisition or its next access to what other units
\* share without that lock.
RECURSIVE Settle(_, _, _, _, _)
Settle(todo, x, u, t, addr) ==
  IF Len(todo) = 0 THEN [todo |-> todo, x |-> x]
  ELSE LET h == Head(todo)
       IN IF h.op = "K"
          THEN LET g == Go(h, x.loc)
               IN Settle(g.todo \o Tail(todo), [x EXCEPT !.loc = g.loc], u, t, addr)
          ELSE IF h.op \in Silent
          THEN Settle(Tail(todo), Exec(h, x, u, NoInfo, t, addr), u, t, addr)
          ELSE IF Barrier(todo) /\ CanTake(x.L, h, u)
          THEN Settle(Tail(Tail(todo)), x, u, t, addr)
          ELSE [todo |-> todo, x |-> x]

\* ------------------------------------------------------------------------
\* State machine
\* ------------------------------------------------------------------------
NoSubs ==
  [c \in Conns |-> [t \in TopicNames \cup {NatsTopics[i] : i \in 1..Len(NatsTopics)} |-> 0]]

Init ==
  /\ now = 0
  /\ remoteAddr \in RemoteAddrs
  /\ lastConnectionNumber = 0
  /\ conn = [c \in Conns |-> NoConnection]
  /\ pc = [c \in Conns |-> "new"]
  /\ connectionsByID = NewConnectionsStorage.connectionsByID
  /\ connectionsByUserID = NewConnectionsStorage.connectionsByUserID
  /\ connectionsByDeviceID = NewConnectionsStorage.connectionsByDeviceID
  /\ numberOfNotLoggedConnections = NewConnectionsStorage.numberOfNotLoggedConnections
  /\ crowd = NoCrowd
  /\ subs = NoSubs
  /\ last = [op |-> "init", conn |-> Nil, reply |-> NoReply]
  /\ bus = NoBus
  /\ unit = [u \in Units |-> IF u[1] = "callback"
                              THEN [NoUnitState EXCEPT !.st = "run"]
                              ELSE NoUnitState]
  /\ mutex = NoLocks.mutex
  /\ dataMutex = NoLocks.dataMutex
  /\ writeMutex = NoLocks.writeMutex

SetStorage(S) ==
  /\ connectionsByID' = S.connectionsByID
  /\ connectionsByUserID' = S.connectionsByUserID
  /\ connectionsByDeviceID' = S.connectionsByDeviceID
  /\ numberOfNotLoggedConnections' = S.numberOfNotLoggedConnections

\* The clock advances by the timeout or by a second more.
Tick(d) ==
  /\ now + d <= MaxNow
  /\ now' = now + d
  /\ UNCHANGED <<remoteAddr, lastConnectionNumber, conn, pc, connectionsByID,
                 connectionsByUserID, connectionsByDeviceID,
                 numberOfNotLoggedConnections, crowd, subs, last, bus, stepVars>>

\* The read loops.  pc[c] is "new" before the accept, "read" while the loop is
\* in ReadMessage, "frame" when ReadMessage has returned a data frame that is
\* not dispatched yet, "exited" after the loop's return.  ReadMessage
\* returning a frame commutes with the steps of the other connections unless
\* one of them closes this connection, so the model lets it return at the
\* latest point: right before the dispatch (the handler actions below start
\* from "read" on an open socket), or right before another unit's Close (the
\* loop is then left in "read" or in "frame").

\* The connections that the step from cs to cs2 closes.
ClosedBy(cs, cs2) == {b \in Conns : cs[b].open /\ ~cs2[b].open}

\* The loop of c moves to `to`; the loops of the other connections that this
\* step closes may hold a frame.
Loops(c, to, cs2) ==
  LET held == {b \in ClosedBy(conn, cs2) \ {c} : pc[b] = "read"}
  IN \E H \in SUBSET held :
       pc' = [b \in Conns |-> IF b = c THEN to
                              ELSE IF b \in H THEN "frame" ELSE pc[b]]

\* ReadMessage of c has returned, or can return, a data frame.
HasFrame(c) == pc[c] = "frame" \/ (pc[c] = "read" /\ conn[c].open)

\* onConnection for connection c: registerConnection, the read loop is
\* started, cleanConnectionsIfNeed.
Accept(c) ==
  /\ pc[c] = "new"
  /\ \A b \in Conns : b < c => pc[b] # "new"
  /\ LET id == lastConnectionNumber + 1
         cs1 == [conn EXCEPT ![c] = NewConnection(id, now)]
         S1 == AddNewConnection(Storage, cs1, c)
         r == cleanConnectionsIfNeed(S1, cs1, crowd, now)
     IN /\ lastConnectionNumber' = id
        /\ SetStorage(r.storage)
        /\ conn' = r.conns
        /\ crowd' = r.crowd
        /\ Loops(c, "read", r.conns)
        /\ last' = [op |-> "accept", conn |-> c, reply |-> NoReply]
  /\ UNCHANGED <<now, remoteAddr, subs, bus, stepVars>>

\* onConnection, Crowd times within one second, for connections that then
\* stay silent; taken when none of these accepts finds the count above the
\* ceiling, so that none of them sweeps.
AcceptCrowd ==
  /\ crowd.state = "absent"
  /\ numberOfNotLoggedConnections + Crowd <= MaxUnLoggedConnectionCount
  /\ lastConnectionNumber' = lastConnectionNumber + Crowd
  /\ numberOfNotLoggedConnections' = numberOfNotLoggedConnections + Crowd
  /\ crowd' = [state |-> "registered", startTime |-> now]
  /\ last' = [op |-> "crowd", conn |-> Nil, reply |-> NoReply]
  /\ UNCHANGED <<now, remoteAddr, conn, pc, connectionsByID, connectionsByUserID,
                 connectionsByDeviceID, subs, bus, stepVars>>

\* The handler of c's loop ends with result r and leaves the loop at `to`.
Apply(c, r, to) ==
  /\ SetStorage(r.storage)
  /\ conn' = r.conns
  /\ subs' = r.subs
  /\ Loops(c, to, r.conns)
  /\ last' = [op |-> r.op, conn |-> c, reply |-> r.reply]
  /\ bus' = NoBus
  /\ UNCHANGED <<now, remoteAddr, lastConnectionNumber, crowd, stepVars>>

\* handleInputMessages: the frame read is a text message.
TextMessage(c, message) ==
  /\ HasFrame(c)
  /\ \A t \in DOMAIN subs[c] : subs[c][t] < MaxSubs \/ message # <<TopicPrefix, t>>
  /\ Apply(c, onTextMessage(Storage, conn, subs, c, message, remoteAddr), "read")

\* handleInputMessages: the frame read is a binary message.
BinaryMessage(c) ==
  /\ HasFrame(c)
  /\ Apply(c, onBinaryMessage(Storage, conn, subs, c), "read")

\* ReadError after which the loop calls ReadMessage again.
ReadError_StayInLoop(c) ==
  /\ pc[c] = "read"
  /\ LET cs1 == [conn EXCEPT ![c] = Close(@, CloseInternalServerErr, "ServerError")]
         S1 == onClose(Storage, cs1, c)
     IN Apply(c, Result(S1, cs1, subs, NoReply, "error"), "read")

\* handleInputMessages: ReadMessage fails (the peer is gone, or the socket
\* was closed by this side).
ReadError(c) ==
  /\ pc[c] = "read"
  /\ LET cs1 == [conn EXCEPT ![c] = Close(@, CloseInternalServerErr, "ServerError")]
         S1 == onClose(Storage, cs1, c)
     IN Apply(c, Result(S1, cs1, subs, NoReply, "error"), "exited")

\* The peer sends a close frame: the websocket library runs the close handler
\* set in registerConnection, then ReadMessage returns the close as an error.
CloseFrame(c) ==
  /\ pc[c] = "read"
  /\ conn[c].open
  /\ LET S1 == onClose(Storage, conn, c)
         cs1 == [conn EXCEPT ![c] = Close(@, CloseInternalServerErr, "ServerError")]
         S2 == onClose(S1, cs1, c)
     IN Apply(c, Result(S2, cs1, subs, NoReply, "close"), "exited")

\* A publisher publishes data on a subject; the bus invokes the callbacks.
Publish(subject, data) ==
  /\ bus' = [msg |-> Msg(subject, data),
             frames |-> [c \in Conns |-> Forwarded(conn, subs, c, Msg(subject, data))]]
  /\ last' = [op |-> "publish", conn |-> Nil, reply |-> NoReply]
  /\ UNCHANGED <<now, remoteAddr, lastConnectionNumber, conn, pc, connectionsByID,
                 connectionsByUserID, connectionsByDeviceID,
                 numberOfNotLoggedConnections, crowd, subs, stepVars>>

Next ==
  \/ \E d \in {UnLoggedConnectionTimeout, UnLoggedConnectionTimeout + 1} : Tick(d)
  \/ \E c \in Conns : Accept(c)
  \/ AcceptCrowd
  \/ \E c \in Conns, m \in TextMessages : TextMessage(c, m)
  \/ \E c \in Conns : BinaryMessage(c)
  \/ \E c \in Conns : ReadError(c)
  \/ \E c \in Conns : CloseFrame(c)

Spec == Init /\ [][Next]_vars

\* The gateway with a publisher on the bus, within one timeout period (no
\* connection grows old enough for the sweep).
Subjects == DOMAIN NoSubs[1]

NextBus ==
  \/ \E c \in Conns : Accept(c)
  \/ \E c \in Conns, m \in TextMessages : TextMessage(c, m)
  \/ \E c \in Conns : BinaryMessage(c)
  \/ \E c \in Conns : ReadError(c)
  \/ \E c \in Conns : CloseFrame(c)
  \/ \E subject \in Subjects, data \in Payloads : Publish(subject, data)

SpecBus == Init /\ [][NextBus]_vars

\* The gateway with its read loops scheduled fairly: ReadMessage on a socket
\* that this side has closed returns its error, and a loop that holds a frame
\* dispatches it.
ReadOnClosed(c) ==
  /\ ~conn[c].open
  /\ ReadError(c)

DispatchHeld(c) ==
  /\ pc[c] = "frame"
  /\ \/ \E m \in TextMessages : TextMessage(c, m)
     \/ BinaryMessage(c)

Fairness ==
  \A c \in Conns : WF_vars(ReadOnClosed(c)) /\ WF_vars(DispatchHeld(c))

SpecLive == Init /\ [][Next]_vars /\ Fairness


\* --- the state machine of the units ---
Locks == [mutex |-> mutex, dataMutex |-> dataMutex, writeMutex |-> writeMutex]

AcceptUnit(c) == <<"accept", c>>
LoopUnit(c) == <<"loop", c>>
CallbackUnit(c) == <<"callback", c>>

\* The context of unit u in the current state, with the connections cs.
Here(u, cs) == Context(unit[u].loc, Locks, Storage, crowd, cs, subs)

\* Unit u is left with the instructions todo in context x.  It runs on to
\* its next stop.  The onConnection handler is done when nothing is left to
\* do, the read loop when it has returned; a unit with nothing to do holds
\* no locals but the count of its frames.
Leave(u, todo, x) ==
  LET s == Settle(todo, x, u, now, remoteAddr)
      idle == Len(s.todo) = 0
      state == [st |-> IF idle /\ (s.x.loc.exit \/ u[1] = "accept")
                       THEN "done" ELSE "run",
                todo |-> s.todo,
                loc |-> IF idle THEN [NoLoc EXCEPT !.frames = s.x.loc.frames]
                        ELSE s.x.loc]
  IN /\ unit' = [v \in Units |->
                   IF v = u THEN state
                   ELSE IF v[1] = "loop" /\ v[2] \in s.x.spawn
                   THEN [unit[v] EXCEPT !.st = "run"]
                   ELSE unit[v]]
     /\ mutex' = s.x.L.mutex
     /\ dataMutex' = s.x.L.dataMutex
     /\ writeMutex' = s.x.L.writeMutex
     /\ SetStorage(s.x.S)
     /\ crowd' = s.x.cr
     /\ conn' = s.x.cs
     /\ subs' = s.x.sb
     /\ UNCHANGED <<now, remoteAddr, pc, last, bus>>

At(u, ops) ==
  /\ unit[u].st = "run"
  /\ Len(unit[u].todo) > 0
  /\ unit[u].todo[1].op \in ops

Idle(u) == unit[u].st = "run" /\ Len(unit[u].todo) = 0

\* The accesses to the fields of a Connection.
FieldReads == {"GetInfo", "GetStartTime", "IsLoggedIn"}
FieldWrites == {"Login", "UpdateLastPingTime"}

\* Unit u is in front of a function of Connection that takes dataMutex, makes
\* its access and releases dataMutex.
AtSection(u) ==
  /\ At(u, {"Lock", "RLock"})
  /\ unit[u].todo[1].arg = "dataMutex"
  /\ Len(unit[u].todo) >= 3
  /\ unit[u].todo[2].op \in FieldReads \cup FieldWrites

\* Lock and RLock of the three mutexes.
Acquire(u) ==
  /\ At(u, {"Lock", "RLock"})
  /\ ~AtSection(u)
  /\ CanTake(Locks, Head(unit[u].todo), u)
  /\ Leave(u, Tail(unit[u].todo),
           Exec(Head(unit[u].todo), Here(u, conn), u, NoInfo, now, remoteAddr))
  /\ UNCHANGED lastConnectionNumber

\* A field of connection c is about to be cleared by a Close that holds
\* writeMutex: a read that runs at the same time may see it cleared already.
Clearing(c, op) ==
  \E v \in Units :
    /\ writeMutex[c] = v
    /\ \E i \in 1..Len(unit[v].todo) :
         unit[v].todo[i].op = op /\ unit[v].todo[i].c = c

InfoOutcomes(c) ==
  {[id |-> i, userID |-> us, deviceID |-> d] :
     i \in {conn[c].id} \cup (IF Clearing(c, "Close.id") THEN {ClosedID} ELSE {}),
     us \in {conn[c].userID} \cup (IF Clearing(c, "Close.userID") THEN {""} ELSE {}),
     d \in {conn[c].deviceID} \cup (IF Clearing(c, "Close.deviceID") THEN {""} ELSE {})}

\* GetInfo, GetStartTime, IsLoggedIn, Login, UpdateLastPingTime: dataMutex is
\* taken, the fields are read or written, dataMutex is released.  Nothing
\* inside can wait, so the three are one step, taken when dataMutex can be.
DataSection(u) ==
  /\ AtSection(u)
  /\ CanTake(Locks, Head(unit[u].todo), u)
  /\ LET h == unit[u].todo[2]
         rest == SubSeq(unit[u].todo, 3, Len(unit[u].todo))
         x == Exec(Head(unit[u].todo), Here(u, conn), u, NoInfo, now, remoteAddr)
     IN \E info \in IF h.op = "GetStartTime" THEN {NoInfo} ELSE InfoOutcomes(h.c) :
          Leave(u, rest, Exec(h, x, u, info, now, remoteAddr))
  /\ UNCHANGED lastConnectionNumber

\* The three assignments at the end of Close.
CloseFields(u) ==
  /\ At(u, {"Close.id", "Close.userID", "Close.deviceID"})
  /\ Leave(u, Tail(unit[u].todo),
           Exec(Head(unit[u].todo), Here(u, conn), u, NoInfo, now, remoteAddr))
  /\ UNCHANGED lastConnectionNumber

\* ws.WriteMessage: a text frame, or the close frame of Close (ws.Close
\* follows it at once).
SocketWrite(u) ==
  /\ At(u, {"WriteMessage", "WriteClose"})
  /\ Leave(u, Tail(unit[u].todo),
           Exec(Head(unit[u].todo), Here(u, conn), u, NoInfo, now, remoteAddr))
  /\ UNCHANGED lastConnectionNumber

\* OnLogin reads connection.deviceID and looks the device up.
OnLoginLookup(u) ==
  /\ At(u, {"OnLogin.before"})
  /\ Leave(u, Tail(unit[u].todo),
           Exec(Head(unit[u].todo), Here(u, conn), u, NoInfo, now, remoteAddr))
  /\ UNCHANGED lastConnectionNumber

\* RemoveIf: the range loop yields its next entry, in any order, and the
\* condition calls GetStartTime on it.
RemoveIfRange(u) ==
  /\ At(u, {"RemoveIf.range"})
  /\ \E id \in unit[u].loc.range :
       LET c == connectionsByID[id]
           x == Here(u, conn)
       IN /\ CanTake(Locks, I("RLock", c, "dataMutex"), u)
          /\ Leave(u, <<K("RemoveIf.condition", c, "")>> \o Tail(unit[u].todo),
                   [x EXCEPT !.loc.range = @ \ {id},
                             !.loc.startTime = conn[c].startTime])
  /\ UNCHANGED lastConnectionNumber

\* The http server calls onConnection for connection c: registerConnection
\* takes the next id and makes the Connection.
StartAccept(c) ==
  /\ unit[AcceptUnit(c)].st = "off"
  /\ \A b \in Conns : b < c => unit[AcceptUnit(b)].st # "off"
  /\ lastConnectionNumber' = lastConnectionNumber + 1
  /\ Leave(AcceptUnit(c), onConnectionSteps(c),
           Here(AcceptUnit(c),
                [conn EXCEPT ![c] = NewConnection(lastConnectionNumber + 1, now)]))

\* The messages the clients send in the step-by-step model.
StepMessages ==
  {<<LoginPrefix, BEARER, JwtA>>, <<TopicPrefix, "test.a">>}

\* The frames the clients of the connections in set S have sent.
RECURSIVE FramesRead(_)
FramesRead(S) ==
  IF S = {} THEN 0
  ELSE LET c == CHOOSE b \in S : TRUE
       IN unit[LoopUnit(c)].loc.frames + FramesRead(S \ {c})

\* handleInputMessages: ReadMessage returns a text frame.
ReadText(c, message) ==
  /\ Idle(LoopUnit(c))
  /\ conn[c].open
  /\ FramesRead(Conns) < MaxFrames
  /\ \A t \in DOMAIN subs[c] : subs[c][t] < MaxSubs \/ message # <<TopicPrefix, t>>
  /\ LET x == Here(LoopUnit(c), conn)
     IN Leave(LoopUnit(c), onFrameSteps(c, onTextMessageSteps(c, message)),
              [x EXCEPT !.loc.frames = @ + 1])
  /\ UNCHANGED lastConnectionNumber

\* handleInputMessages: ReadMessage returns an error, the socket having been
\* closed by the server.
ReadFail(c) ==
  /\ Idle(LoopUnit(c))
  /\ ~conn[c].open
  /\ Leave(LoopUnit(c), onReadErrorSteps(c), Here(LoopUnit(c), conn))
  /\ UNCHANGED lastConnectionNumber

\* The peer's close frame: ReadMessage runs the close handler and returns
\* the close as an error.
PeerClose(c) ==
  /\ Idle(LoopUnit(c))
  /\ conn[c].open
  /\ FramesRead(Conns) < MaxFrames
  /\ LET x == Here(LoopUnit(c), conn)
     IN Leave(LoopUnit(c), onCloseSteps(c) \o onReadErrorSteps(c),
              [x EXCEPT !.loc.frames = @ + 1])
  /\ UNCHANGED lastConnectionNumber

\* The bus delivers a message on a subject c has subscribed to.
BusMessage(c, data) ==
  /\ Idle(CallbackUnit(c))
  /\ \E subject \in DOMAIN subs[c] : subs[c][subject] > 0
  /\ Leave(CallbackUnit(c), CallbackSteps(c, data), Here(CallbackUnit(c), conn))
  /\ UNCHANGED lastConnectionNumber

\* Time passes.  The clock is read by the sweep only, and no accept sweeps
\* without the crowd.
TickSteps ==
  /\ crowd.state # "absent"
  /\ Tick(UnLoggedConnectionTimeout + 1)

\* The silent crowd's accepts, before the connections that are followed
\* step by step.
AcceptCrowdSteps ==
  /\ \A c \in Conns : unit[AcceptUnit(c)].st = "off"
  /\ AcceptCrowd

NextSteps ==
  \/ TickSteps
  \/ AcceptCrowdSteps
  \/ \E c \in Conns : StartAccept(c)
  \/ \E c \in Conns, m \in StepMessages : ReadText(c, m)
  \/ \E c \in Conns : ReadFail(c)
  \/ \E c \in Conns : PeerClose(c)
  \/ \E c \in Conns : BusMessage(c, "whosyourdaddy")
  \/ \E u \in Units : Acquire(u)
  \/ \E u \in Units : DataSection(u)
  \/ \E u \in Units : CloseFields(u)
  \/ \E u \in Units : SocketWrite(u)
  \/ \E u \in Units : OnLoginLookup(u)
  \/ \E u \in Units : RemoveIfRange(u)

\* The step-by-step model runs with one config.RemoteAddr.
InitSteps ==
  /\ Init
  /\ remoteAddr = "10.0.0.1"

SpecSteps == InitSteps /\ [][NextSteps]_vars


\* ------------------------------------------------------------------------
\* Vocabulary of the properties
\* ------------------------------------------------------------------------
InByID(c) == \E id \in DOMAIN connectionsByID : connectionsByID[id] = c

InByUser(c) ==
  \E u \in DOMAIN connectionsByUserID :
    \E d \in DOMAIN connectionsByUserID[u] : connectionsByUserID[u][d] = c

InByDevice(c) == \E d \in DOMAIN connectionsByDeviceID : connectionsByDeviceID[d] = c

Absent(c) == ~InByID(c) /\ ~InByUser(c) /\ ~InByDevice(c)

\* Holds an identity and is registered by id.
Authenticated(c) == conn[c].userID # "" /\ InByID(c)

\* The connections in connectionsByID that hold no identity.
NotLoggedInByID ==
  Cardinality({c \in Conns : InByID(c) /\ conn[c].userID = ""}) + CrowdInByID(crowd)

RegistryUnchanged ==
  UNCHANGED <<connectionsByID, connectionsByUserID, connectionsByDeviceID,
              numberOfNotLoggedConnections>>

LoginMessage(t) == <<LoginPrefix>> \o t

\* The step is the dispatch of text message m by the read loop of c (the first
\* two conjuncts follow from the third).
Dispatches(c, m) ==
  /\ HasFrame(c)
  /\ last'.conn = c
  /\ TextMessage(c, m)

\* ------------------------------------------------------------------------
\* C1: when connection a has logged in with reply "ok" and the next handler
\* to run is a login of another connection b that is answered "ok", then
\* after it b holds the device slot, a is closed with the reason
\* "OneConnectionPerDevice", and a is in none of the three maps.
\* ------------------------------------------------------------------------
C1_SecondLoginReplacesFirst ==
  [][\A a, b \in Conns :
       ( /\ a # b
         /\ last = [op |-> "login", conn |-> a, reply |-> "ok"]
         /\ last' = [op |-> "login", conn |-> b, reply |-> "ok"] )
       => ( /\ DOMAIN connectionsByDeviceID' = {remoteAddr}
            /\ connectionsByDeviceID'[remoteAddr] = b
            /\ ~conn'[a].open
            /\ conn'[a].closeFrame.reason = "OneConnectionPerDevice"
            /\ Absent(a)' )]_vars

C1_Witness ==
  /\ last.op = "login" /\ last.reply = "ok"
  /\ \E a \in Conns :
       /\ a # last.conn
       /\ conn[a].closeFrame.reason = "OneConnectionPerDevice"
       /\ Absent(a)
  /\ MapGet(connectionsByDeviceID, remoteAddr) = last.conn

\* ------------------------------------------------------------------------
\* C2: in every reachable state the counter that GetStats reports equals the
\* number of connections in connectionsByID that hold no identity.
\* ------------------------------------------------------------------------
C2_CounterMatchesByID ==
  GetStats(Storage).NumberOfNotLoggedConnections = NotLoggedInByID

\* ------------------------------------------------------------------------
\* C3: in every reachable state, the connection stored in connectionsByUserID
\* under (u, d) is the connection stored in connectionsByDeviceID under d.
\* ------------------------------------------------------------------------
C3_ByUserAgreesWithByDevice ==
  \A u \in DOMAIN connectionsByUserID :
    \A d \in DOMAIN connectionsByUserID[u] :
      MapGet(connectionsByDeviceID, d) = connectionsByUserID[u][d]

\* ------------------------------------------------------------------------
\* C4: in every reachable state a connection is in the by-user / by-device
\* maps if and only if it is Authenticated, and an Authenticated connection is
\* in exactly one device slot and in exactly one user's device map.
\* ------------------------------------------------------------------------
DeviceSlotsOf(c) == {d \in DOMAIN connectionsByDeviceID : connectionsByDeviceID[d] = c}

UserSlotsOf(c) ==
  {ud \in {<<u, d>> : u \in DOMAIN connectionsByUserID, d \in {"", remoteAddr}} :
     /\ ud[2] \in DOMAIN connectionsByUserID[ud[1]]
     /\ connectionsByUserID[ud[1]][ud[2]] = c}

C4_IdentityMapsIffAuthenticated ==
  \A c \in Conns :
    /\ (InByUser(c) \/ InByDevice(c)) <=> Authenticated(c)
    /\ Authenticated(c) =>
         /\ Cardinality(DeviceSlotsOf(c)) = 1
         /\ Cardinality(UserSlotsOf(c)) = 1

\* ------------------------------------------------------------------------
\* C5: when an accept finds the counter above the ceiling, the sweep closes
\* and removes exactly the registered connections that hold no identity and
\* are older than the timeout; it closes and removes no other connection.
\* ------------------------------------------------------------------------
AcceptStep == lastConnectionNumber' = lastConnectionNumber + 1

C5_SweepTakesOnlyOldUnauthenticated ==
  [][( /\ AcceptStep
       /\ numberOfNotLoggedConnections + 1 > MaxUnLoggedConnectionCount )
     => \A b \in Conns :
          InByID(b) =>
            IF conn[b].userID = "" /\ now - conn[b].startTime > UnLoggedConnectionTimeout
            THEN ~conn'[b].open /\ ~InByID(b)'
            ELSE conn'[b].open = conn[b].open /\ InByID(b)']_vars

\* ------------------------------------------------------------------------
\* C6: after the read loop of a connection has met a read error and exited,
\* the connection is closed and is in none of the three maps.
\* ------------------------------------------------------------------------
C6_ReadErrorUnregisters ==
  last.op = "error" =>
    /\ pc[last.conn] = "exited"
    /\ ~conn[last.conn].open
    /\ Absent(last.conn)

\* ------------------------------------------------------------------------
\* C7: a login whose token does not start with "Bearer " followed by a token
\* that validates is answered "login>:Not Authorized", and changes neither
\* the connection nor the registry.
\* ------------------------------------------------------------------------
BearerPrefixed(t) == Len(t) >= 1 /\ t[1] = BEARER

GoodToken(t) == BearerPrefixed(t) /\ ParseJWT(Tail(t)).ok

BadTokens == {t \in Tokens : ~GoodToken(t)}

C7_BadTokenNotAuthorized ==
  [][\A c \in Conns, t \in BadTokens :
       ( /\ conn[c].open
         /\ Dispatches(c, LoginMessage(t)) )
       => ( /\ last'.reply = "login>:Not Authorized"
            /\ conn' = conn
            /\ RegistryUnchanged )]_vars

\* ------------------------------------------------------------------------
\* C8: a valid login on a connection that is logged in already, resolving to
\* the identity it holds, is answered "ok" and changes neither the
\* connections nor the three maps nor the counter.
\* ------------------------------------------------------------------------
TokenUser(t) == ClaimedUserID(ParseJWT(ResolveIDToken(t).idtoken).claims)

ValidToken(t) == ResolveIDToken(t).valid /\ ParseJWT(ResolveIDToken(t).idtoken).ok

\* The tokens login accepts, and the user each resolves to.
ValidTokens == {t \in Tokens : ValidToken(t)}
UserOfToken == [t \in ValidTokens |-> TokenUser(t)]

C8_ReloginSameIdentity ==
  [][\A c \in Conns, t \in ValidTokens :
       ( /\ conn[c].userID # ""
         /\ conn[c].userID = UserOfToken[t]
         /\ Dispatches(c, LoginMessage(t)) )
       => ( /\ last'.reply = "ok"
            /\ conn' = conn
            /\ RegistryUnchanged )]_vars

C8_Witness ==
  /\ last.op = "relogin" /\ last.reply = "ok"
  /\ Authenticated(last.conn)

\* ------------------------------------------------------------------------
\* C9: a valid login on a connection that is logged in already, resolving to
\* another identity, is answered "go away"; the connection is not closed,
\* keeps its identity, and the three maps and the counter stay as they are.
\* ------------------------------------------------------------------------
C9_ReloginOtherIdentity ==
  [][\A c \in Conns, t \in ValidTokens :
       ( /\ conn[c].userID # ""
         /\ conn[c].userID # UserOfToken[t]
         /\ Dispatches(c, LoginMessage(t)) )
       => ( /\ last'.reply = "go away"
            /\ conn'[c].open
            /\ conn' = conn
            /\ RegistryUnchanged )]_vars

C9_Witness ==
  /\ last.op = "mismatch" /\ last.reply = "go away"
  /\ Authenticated(last.conn)
  /\ conn[last.conn].open

\* ------------------------------------------------------------------------
\* C10: a topic>: message of a logged-in connection whose topic is not in
\* NatsTopics is answered "invalid topic"; no subscription is made and the
\* connection stays open and logged in.
\* ------------------------------------------------------------------------
C10_UnknownTopicRejected ==
  [][\A c \in Conns, n \in TopicNames :
       ( /\ IsLoggedIn(conn[c])
         /\ ~contains(NatsTopics, n)
         /\ Dispatches(c, <<TopicPrefix, n>>) )
       => ( /\ last'.reply = "invalid topic"
            /\ subs' = subs
            /\ conn'[c].open
            /\ IsLoggedIn(conn'[c]) )]_vars

C10_Witness ==
  /\ last.op = "invalidtopic" /\ last.reply = "invalid topic"
  /\ IsLoggedIn(conn[last.conn])
  /\ \A t \in DOMAIN subs[last.conn] : subs[last.conn][t] = 0

\* ------------------------------------------------------------------------
\* C11: a topic>: message of an open connection that is not logged in is
\* answered "go away" whatever the topic; no subscription is made, the
\* connection stays open, and nothing else changes.  Hence a subscription is
\* only ever made for a connection that is logged in when it asks.
\* ------------------------------------------------------------------------
C11_UnauthenticatedTopicRefused ==
  [][ /\ \A c \in Conns, n \in TopicNames :
           ( /\ conn[c].open
             /\ ~IsLoggedIn(conn[c])
             /\ Dispatches(c, <<TopicPrefix, n>>) )
           => ( /\ last'.reply = "go away"
                /\ subs' = subs
                /\ conn'[c].open
                /\ conn' = conn
                /\ RegistryUnchanged )
      /\ \A c \in Conns :
           subs'[c] # subs[c] => IsLoggedIn(conn[c]) ]_vars

C11_Witness ==
  /\ last.op = "notloggedin" /\ last.reply = "go away"
  /\ conn[last.conn].open
  /\ ~IsLoggedIn(conn[last.conn])
  /\ \A t \in DOMAIN subs[last.conn] : subs[last.conn][t] = 0

\* ------------------------------------------------------------------------
\* C12: when a message is published, every open connection that holds a
\* subscription on the message's subject is sent text frames, at least one,
\* each carrying the published data unchanged; a connection without a
\* subscription on that subject is sent nothing.
\* ------------------------------------------------------------------------
C12_ForwardedVerbatimToSubscribersOnly ==
  last.op = "publish" =>
    \A c \in Conns :
      /\ (subs[c][bus.msg.Subject] > 0 /\ conn[c].open) =>
           /\ Len(bus.frames[c]) >= 1
           /\ \A i \in 1..Len(bus.frames[c]) : bus.frames[c][i] = bus.msg.Data
      /\ subs[c][bus.msg.Subject] = 0 => bus.frames[c] = << >>

C12_Witness ==
  /\ last.op = "publish"
  /\ \E c, b \in Conns :
       /\ bus.frames[c] = <<bus.msg.Data>>
       /\ IsLoggedIn(conn[c])
       /\ b # c /\ conn[b].open
       /\ bus.frames[b] = << >>

\* ------------------------------------------------------------------------
\* C13: once a connection is closed it never holds an identity again and no
\* step puts it into a map it is not in, whatever its read loop still has in
\* hand.
\* ------------------------------------------------------------------------
Closed(c) == pc[c] # "new" /\ ~conn[c].open

C13_ClosedIsTerminal ==
  [][\A c \in Conns :
       Closed(c) =>
         /\ ~IsLoggedIn(conn'[c])
         /\ InByID(c)' => InByID(c)
         /\ InByUser(c)' => InByUser(c)
         /\ InByDevice(c)' => InByDevice(c)]_vars

\* ------------------------------------------------------------------------
\* C14: when a first login of connection b is answered "ok" and connection a
\* held the device slot before it, then once the "ok" is sent a is closed
\* and is in none of the three maps, connectionsByID included, and the
\* device slot no longer holds a.
\* ------------------------------------------------------------------------
FirstLoginOk(b) ==
  /\ last'.conn = b
  /\ last'.op = "login"
  /\ last'.reply = "ok"
  /\ ~IsLoggedIn(conn[b])
  /\ IsLoggedIn(conn'[b])

C14_OkAfterEvictedIsGone ==
  [][\A a, b \in Conns :
       ( /\ a # b
         /\ MapGet(connectionsByDeviceID, remoteAddr) = a
         /\ FirstLoginOk(b) )
       => ( /\ ~conn'[a].open
            /\ MapGet(connectionsByDeviceID', remoteAddr) # a
            /\ Absent(a)' )]_vars

\* ------------------------------------------------------------------------
\* C19: a close frame that the gateway has sent carries the code its closer
\* passed to Close, with the closer's reason: ClosePolicyViolation with
\* "Auth" from the sweep, CloseGoingAway with "OneConnectionPerDevice" from a
\* login on the same device, CloseInternalServerErr from a read error.
\* ------------------------------------------------------------------------
CodeOfReason(reason) ==
  CASE reason = "Auth" -> ClosePolicyViolation
    [] reason = "OneConnectionPerDevice" -> CloseGoingAway
    [] reason = "ServerError" -> CloseInternalServerErr

C19_CloseFrameCarriesCode ==
  \A c \in Conns :
    conn[c].closeFrame # NoFrame =>
      /\ conn[c].closeFrame.code = conn[c].closeFrame.asked
      /\ conn[c].closeFrame.code = CodeOfReason(conn[c].closeFrame.reason)

\* ------------------------------------------------------------------------
\* C20: removing a connection a second time changes nothing: in every
\* reachable state, for every connection, RemoveConnection applied twice
\* leaves the three maps and the counter as RemoveConnection applied once,
\* and RemoveConnection of a closed connection leaves them as they are.
\* ------------------------------------------------------------------------
C20_RemoveIsIdempotent ==
  \A c \in Conns :
    LET once == RemoveConnection(Storage, conn, c)
    IN /\ RemoveConnection(once, conn, c) = once
       /\ conn[c].id = ClosedID => once = Storage

\* A registered connection without identity whose removal takes one off the
\* counter, right after a close frame of another connection made onClose run
\* twice.
C20_Witness ==
  /\ last.op = "close"
  /\ \E c \in Conns :
       /\ InByID(c) /\ conn[c].open /\ ~IsLoggedIn(conn[c])
       /\ RemoveConnection(Storage, conn, c).numberOfNotLoggedConnections
            = numberOfNotLoggedConnections - 1

\* ------------------------------------------------------------------------
\* Vocabulary of the step-by-step properties
\* ------------------------------------------------------------------------
\* Unit u is inside ws.WriteMessage on the socket of connection c.
Writing(u, c) ==
  /\ At(u, {"WriteMessage", "WriteClose"})
  /\ Head(unit[u].todo).c = c

\* Unit u is in front of a Lock or RLock it cannot take.
Waiting(u) ==
  /\ At(u, {"Lock", "RLock"})
  /\ ~CanTake(Locks, Head(unit[u].todo), u)

\* The units that hold the lock named by instruction h.
Holders(h) ==
  CASE h.arg = "mutex" -> (mutex.r \cup {mutex.w}) \ {NoUnit}
    [] h.arg = "dataMutex" -> (dataMutex[h.c].r \cup {dataMutex[h.c].w}) \ {NoUnit}
    [] h.arg = "writeMutex" -> {writeMutex[h.c]} \ {NoUnit}

HoldsMutex(u) == mutex.w = u \/ u \in mutex.r
HoldsData(u, c) == dataMutex[c].w = u \/ u \in dataMutex[c].r
HoldsWrite(u, c) == writeMutex[c] = u

\* The units of set X wait for one another: each of them waits for a lock
\* that a unit of X holds.
WaitForEachOther(X) ==
  \A u \in X : Waiting(u) /\ Holders(Head(unit[u].todo)) \cap X # {}

\* ------------------------------------------------------------------------
\* C15: for each connection at most one write to its socket is in progress
\* at any time: of the units that can write to it (the read loop with a
\* reply, the callback of a subscription with a payload of the bus, a closer
\* with the close frame) never two are inside ws.WriteMessage together.
\* ------------------------------------------------------------------------
C15_OneWriteInProgress ==
  \A c \in Conns : \A u, v \in Units :
    Writing(u, c) /\ Writing(v, c) => u = v

\* The callback of connection c is inside the write of a payload while a
\* closer of c waits for writeMutex with the close frame.
C15_Witness ==
  \E c \in Conns : \E v \in Units :
    /\ Writing(CallbackUnit(c), c)
    /\ v # CallbackUnit(c)
    /\ Waiting(v)
    /\ Head(unit[v].todo).arg = "writeMutex"
    /\ Head(unit[v].todo).c = c
    /\ Len(unit[v].todo) >= 2
    /\ unit[v].todo[2].op = "WriteClose"

\* ------------------------------------------------------------------------
\* C16: the storage's mutex, a connection's dataMutex and a connection's
\* writeMutex are never acquired in a cyclic order, and there is no
\* deadlock: a unit that asks for mutex holds no lock; a unit that asks for
\* a dataMutex or a writeMutex holds no dataMutex and no writeMutex; and no
\* set of units exists in which each waits for a lock held by another.
\* ------------------------------------------------------------------------
C16_NoLockCycle ==
  /\ \A u \in Units :
       At(u, {"Lock", "RLock"}) =>
         LET h == Head(unit[u].todo)
         IN /\ \A c \in Conns : ~HoldsData(u, c) /\ ~HoldsWrite(u, c)
            /\ h.arg = "mutex" => ~HoldsMutex(u)
  /\ \A X \in SUBSET Units : X # {} => ~WaitForEachOther(X)

\* The sweep holds mutex and waits for the writeMutex of a connection whose
\* callback is inside a write, while another unit waits for mutex.
C16_Witness ==
  \E u, v \in Units : \E c \in Conns :
    /\ mutex.w = u
    /\ Waiting(u)
    /\ Head(unit[u].todo).arg = "writeMutex"
    /\ Head(unit[u].todo).c = c
    /\ writeMutex[c] = CallbackUnit(c)
    /\ Waiting(v)
    /\ Head(unit[v].todo).arg = "mutex"

\* ------------------------------------------------------------------------
\* C17: every read and every write of a connection's fields (id, userID,
\* deviceID, startTime, lastMessageAt) is made while the unit holds that
\* connection's dataMutex, for writing if it writes; and no two units are
\* ever both about to access the same field of the same connection, one of
\* them writing, without dataMutex keeping them apart.
\* ------------------------------------------------------------------------
CloseWrites == {"Close.id", "Close.userID", "Close.deviceID"}
AccessOps == FieldReads \cup FieldWrites \cup CloseWrites \cup {"OnLogin.before"}

\* Unit u is about to access fields of a connection.
Accessing(u) ==
  \/ AtSection(u) /\ CanTake(Locks, Head(unit[u].todo), u)
  \/ At(u, AccessOps)

\* The access unit u is about to make.
AccessOf(u) == IF AtSection(u) THEN unit[u].todo[2] ELSE Head(unit[u].todo)

FieldsOf(h) ==
  CASE h.op = "GetInfo" -> {"id", "userID", "deviceID"}
    [] h.op = "IsLoggedIn" -> {"userID"}
    [] h.op = "GetStartTime" -> {"startTime"}
    [] h.op = "Login" -> {"userID", "deviceID"}
    [] h.op = "UpdateLastPingTime" -> {"lastMessageAt"}
    [] h.op = "Close.id" -> {"id"}
    [] h.op = "Close.userID" -> {"userID"}
    [] h.op = "Close.deviceID" -> {"deviceID"}
    [] h.op = "OnLogin.before" -> {"deviceID"}

IsWrite(h) == h.op \in FieldWrites \cup CloseWrites

\* How unit u holds the dataMutex of the connection during its access.
DataLockMode(u) ==
  LET c == AccessOf(u).c
  IN IF AtSection(u) THEN Head(unit[u].todo).op
     ELSE IF dataMutex[c].w = u THEN "Lock"
     ELSE IF u \in dataMutex[c].r THEN "RLock"
     ELSE "none"

UnderDataLock(u) ==
  \/ DataLockMode(u) = "Lock"
  \/ DataLockMode(u) = "RLock" /\ ~IsWrite(AccessOf(u))

Race(u, v) ==
  /\ u # v
  /\ Accessing(u) /\ Accessing(v)
  /\ AccessOf(u).c = AccessOf(v).c
  /\ FieldsOf(AccessOf(u)) \cap FieldsOf(AccessOf(v)) # {}
  /\ IsWrite(AccessOf(u)) \/ IsWrite(AccessOf(v))
  /\ ~(UnderDataLock(u) /\ UnderDataLock(v))

C17_FieldsUnderDataLock ==
  /\ \A u \in Units : Accessing(u) => UnderDataLock(u)
  /\ \A u, v \in Units : ~Race(u, v)

\* ------------------------------------------------------------------------
\* C18: on accept the connection is registered, then the sweep of this
\* accept runs to its end, and only then the connection's read loop starts:
\* whenever the read loop of a connection has been started, and all the
\* more when it has met a frame, the onConnection handler of the connection
\* is through with cleanConnectionsIfNeed.
\* ------------------------------------------------------------------------
C18_LoopStartsAfterSweep ==
  \A c \in Conns :
    (unit[LoopUnit(c)].st # "off" \/ unit[LoopUnit(c)].loc.frames > 0)
      => unit[AcceptUnit(c)].st = "done"

\* ------------------------------------------------------------------------
\* C21: when the client of a registered connection sends a close frame, the
\* connection leaves connectionsByID; if it held an identity it leaves
\* connectionsByUserID and connectionsByDeviceID too and no user is left
\* with an empty entry, otherwise the counter goes down by exactly one; the
\* read loop has then exited, and the handling of the close as a read error
\* that follows changes the registry no further: the registry is what one
\* RemoveConnection makes of it.
\* ------------------------------------------------------------------------
C21_CloseFrameUnregistersOnce ==
  [][\A c \in Conns :
       (InByID(c) /\ CloseFrame(c)) =>
         /\ ~InByID(c)'
         /\ IF IsLoggedIn(conn[c])
            THEN /\ ~InByUser(c)'
                 /\ ~InByDevice(c)'
                 /\ \A u \in DOMAIN connectionsByUserID' :
                      DOMAIN connectionsByUserID'[u] # {}
            ELSE numberOfNotLoggedConnections' = numberOfNotLoggedConnections - 1
         /\ pc'[c] = "exited"
         /\ Storage' = RemoveConnection(Storage, conn, c)]_vars

\* The close frame of a connection that had logged in and subscribed has
\* been handled: the connection is in none of the maps and its loop is gone.
C21_Witness ==
  /\ last.op = "close"
  /\ \E c \in Conns :
       /\ last.conn = c
       /\ \E t \in DOMAIN subs[c] : subs[c][t] > 0
       /\ Absent(c)
       /\ pc[c] = "exited"

\* ------------------------------------------------------------------------
\* C22: with the read loops scheduled fairly and ReadMessage failing on a
\* socket that this side has closed, the read loop of every connection that
\* another unit has closed (the login that takes over its device, or the
\* sweep) eventually exits; and the closer does not wait for it: the step
\* that closes the connection ends with that loop still running.
\* ------------------------------------------------------------------------
\* Connection c has been closed while its read loop runs.
ClosedByOther(c) ==
  /\ conn[c].id = ClosedID
  /\ pc[c] \in {"read", "frame"}

C22_ClosedLoopExits ==
  /\ \A c \in Conns : ClosedByOther(c) ~> (pc[c] = "exited")
  /\ [][\A c \in ClosedBy(conn, conn') :
          last'.op \notin {"error", "close"} => ClosedByOther(c)']_vars

\* The read loop of a connection that the sweep or an evicting login had
\* closed has exited on the read error.
C22_Witness ==
  /\ last.op = "error"
  /\ \E c \in Conns :
       /\ last.conn = c
       /\ pc[c] = "exited"
       /\ conn[c].closeFrame.reason \in {"Auth", "OneConnectionPerDevice"}

====
